---- MODULE Spec2Model ----
(***************************************************************************)
(* The chat page of the admin panel (ChatInterface): its React state, the  *)
(* HTTP requests it has in flight, and the backend data those requests     *)
(* read and change.  Every request is served by the backend at one moment  *)
(* (its response is a snapshot of the backend at that moment) and its      *)
(* response reaches the page at a later one, in any order.                 *)
(***************************************************************************)
EXTENDS Integers, Sequences, FiniteSets, Bags, TLC

\* ---- bounds of the model ------------------------------------------------
MaxInFlight == 3
MaxEvents == 3

\* ---- values -------------------------------------------------------------
None == 0
Users == {1, 2}
NoUser == [id |-> None, bot_paused |-> FALSE]
NoData == [user |-> NoUser, messages |-> <<>>, convs |-> <<>>]
Texts == { <<>>, <<" ">>, <<"a">>, <<" ", "a">> }

NoSel == [uid |-> None, fetches |-> 0, marks |-> 0]

VARIABLES
    \* React state of ChatInterface
    conversations, selectedUser, messages, newMessage, loading, sending,
    \* the route parameter, the component's life, its interval timers
    userId, mounted, intervals,
    \* the notifications raised by the last step
    notice,
    \* requests in flight: a bag of request records
    net,
    \* backend data
    bot_paused, nmsgs,
    \* the user events and timer ticks so far
    events,
    \* history: the thread fetches and mark-read calls that the first click
    \* on a list entry has caused; whether the last user event was a
    \* handleSend that returned at its guard
    sel, rejected

vars == << conversations, selectedUser, messages, newMessage, loading, sending,
           userId, mounted, intervals, notice, net, bot_paused, nmsgs,
           events, sel, rejected >>

uiState == << conversations, selectedUser, messages, newMessage, loading,
              sending >>
backend == << bot_paused, nmsgs >>

\* ---- pure helpers -------------------------------------------------------
RECURSIVE TrimStart(_)
TrimStart(s) == IF s # <<>> /\ Head(s) = " " THEN TrimStart(Tail(s)) ELSE s

RECURSIVE TrimEnd(_)
TrimEnd(s) ==
    IF s # <<>> /\ s[Len(s)] = " " THEN TrimEnd(SubSeq(s, 1, Len(s) - 1)) ELSE s

trim(s) == TrimEnd(TrimStart(s))

\* a request record
Req(kind, uid, origin) ==
    [kind |-> kind, uid |-> uid, origin |-> origin, st |-> "sent",
     data |-> NoData, content |-> <<>>, wa |-> FALSE]

Requests == BagToSet(net)
Add(b, r) == b (+) SetToBag({r})
Remove(b, r) == b (-) SetToBag({r})

\* the requests a request in flight can still turn into at one time
Weight(r) == IF r.kind = "toggle" THEN 2 ELSE 1
RECURSIVE LoadOf(_, _)
LoadOf(b, S) ==
    IF S = {} THEN 0
    ELSE LET r == CHOOSE x \in S : TRUE
         IN  CopiesIn(r, b) * Weight(r) + LoadOf(b, S \ {r})
Load == LoadOf(net, Requests)
Room(n) == Load + n <= MaxInFlight

\* a state setter of an unmounted component changes nothing
Upd(old, new) == IF mounted THEN new ELSE old

\* what the backend answers
ThreadOf(u) == [k \in 1..nmsgs[u] |-> [id |-> k, user_id |-> u]]
UserOf(u) == [id |-> u, bot_paused |-> bot_paused[u]]
ConversationsData == [u \in 1..Cardinality(Users) |-> [user |-> UserOf(u)]]
MessagesData(u) == [user |-> UserOf(u), messages |-> ThreadOf(u), convs |-> <<>>]

\* the list shows an entry for user u
Listed(u) == \E i \in 1..Len(conversations) : conversations[i].user.id = u

\* ---- initial state: mounted, first render done, effects run -------------
Init ==
    /\ conversations = <<>>
    /\ selectedUser = NoUser
    /\ messages = <<>>
    /\ newMessage = <<>>
    /\ loading = TRUE
    /\ sending = FALSE
    /\ userId \in {None} \cup Users
    /\ mounted = TRUE
    /\ intervals = 1
    /\ notice = <<>>
    /\ net = SetToBag({Req("conv", userId, "init")})
    /\ bot_paused = [u \in Users |-> FALSE]
    /\ nmsgs = [u \in Users |-> 1]
    /\ events = 0
    /\ sel = NoSel
    /\ rejected = FALSE

\* ---- the asynchronous functions, as what they request -------------------
\* fetchConversations(): GET /conversations
fetchConversations(b, origin, uid) == Add(b, Req("conv", uid, origin))

\* fetchMessages(uid): GET /users/uid/messages
fetchMessages(b, uid, origin) == Add(b, Req("msgs", uid, origin))

\* the end of the function that awaited fetchMessages
LoadingAfter(origin) == IF origin = "init" THEN Upd(loading, FALSE) ELSE loading

SendingAfter_Stuck(origin) == sending

SendingAfter(origin) == IF origin = "send" THEN Upd(sending, FALSE) ELSE sending

NotesAfter(origin) == IF origin = "send" THEN <<"Message sent">> ELSE <<>>

\* ---- user events --------------------------------------------------------
Rendered == mounted /\ ~loading

\* the refresh button of the list
ClickRefresh ==
    /\ Rendered /\ Room(1)
    /\ net' = fetchConversations(net, "manual", None)
    /\ notice' = <<>>
    /\ UNCHANGED << uiState, userId, mounted, intervals, backend, sel >>

\* the initial-load effect, run when the route's user id changed to u
InitEffect(b, u) == fetchConversations(b, "init", u)

\* a click on the list entry of user u: navigate, then fetchMessages
ClickConversation(u) ==
    /\ Rendered /\ Listed(u)
    /\ Room(IF u = userId THEN 1 ELSE 2)
    /\ userId' = u
    /\ net' = IF u = userId THEN fetchMessages(net, u, "click")
              ELSE InitEffect(fetchMessages(net, u, "click"), u)
    /\ loading' = IF u = userId THEN loading ELSE TRUE
    /\ notice' = <<>>
    /\ sel' = IF events = 0 /\ u # userId
              THEN [uid |-> u, fetches |-> 1, marks |-> 0] ELSE NoSel
    /\ UNCHANGED << conversations, selectedUser, messages, newMessage, sending,
                    mounted, intervals, backend >>

\* the route changes without a click (browser history, another page's link)
Navigate(u) ==
    /\ mounted /\ u # userId /\ Room(1)
    /\ userId' = u
    /\ net' = InitEffect(net, u)
    /\ loading' = TRUE
    /\ notice' = <<>>
    /\ sel' = NoSel
    /\ UNCHANGED << conversations, selectedUser, messages, newMessage, sending,
                    mounted, intervals, backend >>

TextFieldEnabled_NoGate == Rendered /\ selectedUser.id # None

\* the compose box is on screen and enabled
TextFieldEnabled == Rendered /\ selectedUser.id # None /\ ~sending

\* the send button is on screen and enabled
SendButtonEnabled ==
    Rendered /\ selectedUser.id # None /\ ~(sending \/ trim(newMessage) = <<>>)

TypeMessage(t) ==
    /\ TextFieldEnabled /\ t # newMessage
    /\ newMessage' = t
    /\ notice' = <<>>
    /\ UNCHANGED << conversations, selectedUser, messages, loading, sending,
                    userId, mounted, intervals, net, backend, sel >>

\* the guard of handleSend
Blank == trim(newMessage) = <<>> \/ selectedUser.id = None

HandleSend_NoTrim(wa) ==
    IF newMessage = <<>> \/ selectedUser.id = None
    THEN UNCHANGED << uiState, net >>
    ELSE /\ Room(1)
         /\ sending' = TRUE
         /\ net' = Add(net, [Req("send", selectedUser.id, "send") EXCEPT
                             !.content = newMessage, !.wa = wa])
         /\ UNCHANGED << conversations, selectedUser, messages, newMessage,
                         loading >>

\* handleSend, up to its first await; wa is the "Send via WhatsApp" switch
HandleSend(wa) ==
    IF Blank
    THEN UNCHANGED << uiState, net >>
    ELSE /\ Room(1)
         /\ sending' = TRUE
         /\ net' = Add(net, [Req("send", selectedUser.id, "send") EXCEPT
                             !.content = newMessage, !.wa = wa])
         /\ UNCHANGED << conversations, selectedUser, messages, newMessage,
                         loading >>

\* Enter in the compose box
PressEnter ==
    /\ TextFieldEnabled
    /\ \E wa \in BOOLEAN : HandleSend(wa)
    /\ notice' = <<>>
    /\ UNCHANGED << userId, mounted, intervals, backend, sel >>

\* a click on the send button
ClickSend ==
    /\ SendButtonEnabled
    /\ \E wa \in BOOLEAN : HandleSend(wa)
    /\ notice' = <<>>
    /\ UNCHANGED << userId, mounted, intervals, backend, sel >>

\* handleToggleBot, up to its await
HandleToggleBot ==
    /\ Rendered /\ selectedUser.id # None /\ Room(2)
    /\ net' = Add(net, Req("toggle", selectedUser.id, "toggle"))
    /\ notice' = <<>>
    /\ UNCHANGED << uiState, userId, mounted, intervals, backend, sel >>

Tick_RouteUser ==
    /\ mounted /\ intervals > 0
    /\ Room(IF userId # None THEN 2 ELSE 1)
    /\ net' = IF userId # None
              THEN fetchMessages(fetchConversations(net, "poll", None),
                                 userId, "poll")
              ELSE fetchConversations(net, "poll", None)
    /\ notice' = <<>>
    /\ UNCHANGED << uiState, userId, mounted, intervals, backend, sel >>

\* a tick of the auto-refresh interval
Tick ==
    /\ mounted /\ intervals > 0
    /\ Room(IF selectedUser.id # None THEN 2 ELSE 1)
    /\ net' = IF selectedUser.id # None
              THEN fetchMessages(fetchConversations(net, "poll", None),
                                 selectedUser.id, "poll")
              ELSE fetchConversations(net, "poll", None)
    /\ notice' = <<>>
    /\ UNCHANGED << uiState, userId, mounted, intervals, backend, sel >>

\* the page is left: the interval effect's cleanup runs
Unmount ==
    /\ mounted
    /\ mounted' = FALSE
    /\ intervals' = 0
    /\ notice' = <<>>
    /\ UNCHANGED << uiState, userId, net, backend, sel >>

\* ---- the backend serves a request --------------------------------------
\* A successful answer is computed, and the backend changed, when the request
\* is served; the answer reaches the page later.  A failure (a transport
\* error, a non-2xx status) carries no data: it is decided when it reaches
\* the page.  So is the answer to mark-read, which carries no data and
\* changes nothing the page reads.
Answered(r, data) == [r EXCEPT !.st = "ok", !.data = data]

Serve(r) ==
    /\ r.st = "sent"
    /\ CASE r.kind = "conv" ->
              /\ net' = Add(Remove(net, r),
                            Answered(r, [NoData EXCEPT !.convs = ConversationsData]))
              /\ UNCHANGED backend
         [] r.kind = "msgs" ->
              /\ net' = Add(Remove(net, r), Answered(r, MessagesData(r.uid)))
              /\ UNCHANGED backend
         [] r.kind = "send" ->
              /\ net' = Add(Remove(net, r), Answered(r, NoData))
              /\ nmsgs' = [nmsgs EXCEPT ![r.uid] = @ + 1]
              /\ UNCHANGED bot_paused
         [] r.kind = "toggle" ->
              /\ net' = Add(Remove(net, r), Answered(r, NoData))
              /\ bot_paused' = [bot_paused EXCEPT ![r.uid] = ~@]
              /\ UNCHANGED nmsgs
         [] OTHER -> FALSE
    /\ UNCHANGED << uiState, userId, mounted, intervals, notice, sel >>

\* ---- a response reaches the page ---------------------------------------
\* The awaited call of request r can return (ok) once r was served, and can
\* throw (~ok) at any time.
Settles(r, kind, ok) ==
    /\ r.kind = kind
    /\ ok => (r.st = "ok" \/ kind = "mark")

ConversationsAfter_Blank(r, ok) == IF ok THEN Upd(conversations, r.data.convs) ELSE <<>>

ConversationsAfter_FirstWins(r, ok) ==
    IF ok /\ conversations = <<>> THEN Upd(conversations, r.data.convs) ELSE conversations

\* fetchConversations: setConversations on success, nothing on failure
ConversationsAfter(r, ok) == IF ok THEN Upd(conversations, r.data.convs) ELSE conversations

DeliverConv_StopsTimer(r, ok) ==
    /\ Settles(r, "conv", ok)
    /\ conversations' = ConversationsAfter(r, ok)
    /\ notice' = IF ok THEN <<>> ELSE <<"Failed to load conversations">>
    /\ net' = IF r.origin = "init" /\ r.uid # None
              THEN fetchMessages(Remove(net, r), r.uid, "init")
              ELSE Remove(net, r)
    /\ loading' = IF r.origin = "init" /\ r.uid = None
                  THEN Upd(loading, FALSE) ELSE loading
    /\ sel' = IF r.origin = "init" /\ r.uid # None /\ r.uid = sel.uid
              THEN [sel EXCEPT !.fetches = @ + 1] ELSE sel
    /\ intervals' = IF ok THEN intervals ELSE 0
    /\ UNCHANGED << selectedUser, messages, newMessage, sending, userId,
                    mounted, backend >>

\* fetchConversations after its await; init goes on when it was the caller
DeliverConv(r, ok) ==
    /\ Settles(r, "conv", ok)
    /\ conversations' = ConversationsAfter(r, ok)
    /\ notice' = IF ok THEN <<>> ELSE <<"Failed to load conversations">>
    /\ net' = IF r.origin = "init" /\ r.uid # None
              THEN fetchMessages(Remove(net, r), r.uid, "init")
              ELSE Remove(net, r)
    /\ loading' = IF r.origin = "init" /\ r.uid = None
                  THEN Upd(loading, FALSE) ELSE loading
    /\ sel' = IF r.origin = "init" /\ r.uid # None /\ r.uid = sel.uid
              THEN [sel EXCEPT !.fetches = @ + 1] ELSE sel
    /\ UNCHANGED << selectedUser, messages, newMessage, sending, userId,
                    mounted, intervals, backend >>

ThreadFetched_MarkAlways(b, r, ok) == Add(Remove(b, r), Req("mark", r.uid, r.origin))

\* fetchMessages: markAsRead is requested after the thread fetch returned
ThreadFetched(b, r, ok) ==
    IF ok THEN Add(Remove(b, r), Req("mark", r.uid, r.origin)) ELSE Remove(b, r)

IntervalEffect_NoCleanup(n) == n + 1

\* the auto-refresh effect runs again because selectedUser changed: the cleanup
\* of its previous run (clearInterval), then setInterval
IntervalEffect(n) == (n - 1) + 1

DeliverMsgs_UserOnlyIfCurrent(r, ok) ==
    /\ Settles(r, "msgs", ok)
    /\ net' = ThreadFetched(net, r, ok)
    /\ IF ok
       THEN /\ selectedUser' = IF r.uid = userId
                                THEN Upd(selectedUser, r.data.user) ELSE selectedUser
            /\ messages' = Upd(messages, r.data.messages)
            /\ notice' = <<>>
            /\ sel' = IF r.origin \in {"click", "init"} /\ r.uid = sel.uid
                      THEN [sel EXCEPT !.marks = @ + 1] ELSE sel
            /\ intervals' = Upd(intervals, IntervalEffect(intervals))
            /\ UNCHANGED << loading, sending >>
       ELSE /\ notice' = <<"Failed to load messages">> \o NotesAfter(r.origin)
            /\ loading' = LoadingAfter(r.origin)
            /\ sending' = SendingAfter(r.origin)
            /\ UNCHANGED << selectedUser, messages, sel, intervals >>
    /\ UNCHANGED << conversations, newMessage, userId, mounted, backend >>

\* fetchMessages after its first await
DeliverMsgs(r, ok) ==
    /\ Settles(r, "msgs", ok)
    /\ net' = ThreadFetched(net, r, ok)
    /\ IF ok
       THEN /\ selectedUser' = Upd(selectedUser, r.data.user)
            /\ messages' = Upd(messages, r.data.messages)
            /\ notice' = <<>>
            /\ sel' = IF r.origin \in {"click", "init"} /\ r.uid = sel.uid
                      THEN [sel EXCEPT !.marks = @ + 1] ELSE sel
            /\ intervals' = Upd(intervals, IntervalEffect(intervals))
            /\ UNCHANGED << loading, sending >>
       ELSE /\ notice' = <<"Failed to load messages">> \o NotesAfter(r.origin)
            /\ loading' = LoadingAfter(r.origin)
            /\ sending' = SendingAfter(r.origin)
            /\ UNCHANGED << selectedUser, messages, sel, intervals >>
    /\ UNCHANGED << conversations, newMessage, userId, mounted, backend >>

\* fetchMessages after its second await (markAsRead), and its caller's end
DeliverMark(r, ok) ==
    /\ Settles(r, "mark", ok)
    /\ net' = IF ok THEN fetchConversations(Remove(net, r), "thread", None)
              ELSE Remove(net, r)
    /\ notice' = (IF ok THEN <<>> ELSE <<"Failed to load messages">>)
                 \o NotesAfter(r.origin)
    /\ loading' = LoadingAfter(r.origin)
    /\ sending' = SendingAfter(r.origin)
    /\ UNCHANGED << conversations, selectedUser, messages, newMessage, userId,
                    mounted, intervals, backend, sel >>

DeliverSend_ClearAlways(r, ok) ==
    /\ Settles(r, "send", ok)
    /\ newMessage' = Upd(newMessage, <<>>)
    /\ IF ok
       THEN /\ net' = fetchMessages(Remove(net, r), r.uid, "send")
            /\ notice' = <<>>
            /\ UNCHANGED sending
       ELSE /\ notice' = <<"Failed to send message">>
            /\ net' = Remove(net, r)
            /\ sending' = Upd(sending, FALSE)
    /\ UNCHANGED << conversations, selectedUser, messages, loading, userId,
                    mounted, intervals, backend, sel >>

DeliverSend_Optimistic(r, ok) ==
    /\ Settles(r, "send", ok)
    /\ IF ok
       THEN /\ newMessage' = Upd(newMessage, <<>>)
            /\ messages' = Upd(messages, Append(messages,
                                 [id |-> Len(messages) + 1, user_id |-> r.uid]))
            /\ net' = fetchMessages(Remove(net, r), r.uid, "send")
            /\ notice' = <<>>
            /\ UNCHANGED sending
       ELSE /\ notice' = <<"Failed to send message">>
            /\ net' = Remove(net, r)
            /\ sending' = Upd(sending, FALSE)
            /\ UNCHANGED << newMessage, messages >>
    /\ UNCHANGED << conversations, selectedUser, loading, userId,
                    mounted, intervals, backend, sel >>

\* handleSend after its first await
DeliverSend(r, ok) ==
    /\ Settles(r, "send", ok)
    /\ IF ok
       THEN /\ newMessage' = Upd(newMessage, <<>>)
            /\ net' = fetchMessages(Remove(net, r), r.uid, "send")
            /\ notice' = <<>>
            /\ UNCHANGED sending
       ELSE /\ notice' = <<"Failed to send message">>
            /\ net' = Remove(net, r)
            /\ sending' = Upd(sending, FALSE)
            /\ UNCHANGED newMessage
    /\ UNCHANGED << conversations, selectedUser, messages, loading, userId,
                    mounted, intervals, backend, sel >>

DeliverToggle_Retry(r, ok) ==
    /\ Settles(r, "toggle", ok)
    /\ IF ok
       THEN /\ notice' = <<"Bot status changed">>
            /\ net' = fetchConversations(fetchMessages(Remove(net, r), r.uid, "toggle"),
                                         "toggle", None)
       ELSE /\ notice' = <<"Failed to toggle bot status">>
            /\ net' = Add(Remove(net, r), Req("toggle", r.uid, "toggle"))
    /\ UNCHANGED << uiState, userId, mounted, intervals, backend, sel >>

\* handleToggleBot after its await
DeliverToggle(r, ok) ==
    /\ Settles(r, "toggle", ok)
    /\ IF ok
       THEN /\ notice' = <<"Bot status changed">>
            /\ net' = fetchConversations(fetchMessages(Remove(net, r), r.uid, "toggle"),
                                         "toggle", None)
       ELSE /\ notice' = <<"Failed to toggle bot status">>
            /\ net' = Remove(net, r)
    /\ UNCHANGED << uiState, userId, mounted, intervals, backend, sel >>

Deliver(r, ok) ==
    \/ DeliverConv(r, ok)
    \/ DeliverMsgs(r, ok)
    \/ DeliverMark(r, ok)
    \/ DeliverSend(r, ok)
    \/ DeliverToggle(r, ok)

\* ---- the specifications -------------------------------------------------
SendEvent ==
    \/ PressEnter
    \/ ClickSend

\* one more user event or tick, while fewer than n of them have happened
Counted(n, rej) ==
    /\ events < n
    /\ events' = events + 1
    /\ rejected' = rej

\* a user event or a tick, while fewer than n of them have happened
EventWithin(n) ==
    \/ Counted(n, Blank) /\ PressEnter
    \/ Counted(n, Blank) /\ ClickSend
    \/ Counted(n, FALSE) /\ ClickRefresh
    \/ \E u \in Users : Counted(n, FALSE) /\ ClickConversation(u)
    \/ \E u \in {None} \cup Users : Counted(n, FALSE) /\ Navigate(u)
    \/ \E t \in Texts : Counted(n, FALSE) /\ TypeMessage(t)
    \/ Counted(n, FALSE) /\ HandleToggleBot
    \/ Counted(n, FALSE) /\ Unmount
    \/ Counted(n, FALSE) /\ Tick

Event == EventWithin(MaxEvents)

ServeStep == \E r \in Requests : Serve(r) /\ UNCHANGED << events, rejected >>

DeliverOk == \E r \in Requests : Deliver(r, TRUE) /\ UNCHANGED << events, rejected >>

DeliverFail == \E r \in Requests : Deliver(r, FALSE) /\ UNCHANGED << events, rejected >>

Next ==
    \/ Event
    \/ ServeStep
    \/ DeliverOk
    \/ DeliverFail

Spec == Init /\ [][Next]_vars

\* every request succeeds
NextOk ==
    \/ Event
    \/ ServeStep
    \/ DeliverOk

SpecOk == Init /\ [][NextOk]_vars

\* only list entries are clicked, and every request succeeds
NextClicks ==
    \/ \E u \in Users : Counted(MaxEvents, FALSE) /\ ClickConversation(u)
    \/ ServeStep
    \/ DeliverOk

SpecClicks == Init /\ [][NextClicks]_vars

\* only the bot switch is used, and every request succeeds
NextToggles ==
    \/ Counted(MaxEvents, FALSE) /\ HandleToggleBot
    \/ ServeStep
    \/ DeliverOk

SpecToggles == Init /\ [][NextToggles]_vars

\* every request is answered in the end
LiveEvents == 2

NextLive ==
    \/ EventWithin(LiveEvents)
    \/ ServeStep
    \/ DeliverOk
    \/ DeliverFail

FairSpec ==
    /\ Init
    /\ [][NextLive]_vars
    /\ WF_vars(DeliverOk \/ DeliverFail)

\* ---- what the claims speak of -------------------------------------------
\* the requests this step has issued
NewRequests ==
    { q \in BagToSet(net') : q.st = "sent" /\ CopiesIn(q, net') > CopiesIn(q, net) }

\* the requests this step has taken out of flight, or has served
Settled == { q \in Requests : CopiesIn(q, net') < CopiesIn(q, net) }

\* a thread fetch that a selection caused is still to come or in flight
SelectionPending ==
    \E q \in Requests :
        \/ q.kind = "msgs" /\ q.origin \in {"click", "init"}
        \/ q.kind = "conv" /\ q.origin = "init" /\ q.uid # None

\* the POST /messages/send requests in flight
RECURSIVE CountSends(_, _)
CountSends(b, S) ==
    IF S = {} THEN 0
    ELSE LET r == CHOOSE x \in S : TRUE
         IN  (IF r.kind = "send" THEN CopiesIn(r, b) ELSE 0) + CountSends(b, S \ {r})
SendsInFlight == CountSends(net, Requests)

\* the bot_paused flag the list shows for user u
ListedFlag(u) ==
    LET i == CHOOSE j \in 1..Len(conversations) : conversations[j].user.id = u
    IN  conversations[i].user.bot_paused

\* ---- the claims ---------------------------------------------------------

\* C1: stale-drop on selection. With the data of the selected user (the route's
\* user id) on screen, the last response of the thread fetches that selections
\* have caused leaves that user's data on screen: it never puts back the data
\* of a user selected before.
C1_StaleDrop ==
    [][\A r \in Requests :
          ( /\ mounted
            /\ r.origin = "click"
            /\ userId # None /\ selectedUser.id = userId
            /\ DeliverMsgs(r, TRUE)
            /\ ~SelectionPending' )
          => selectedUser'.id = userId]_vars

\* C2: a thread fetch for user A issued by a poll tick or by the reload after a
\* send or a toggle, whose response arrives when another user B is selected and
\* B's data is on screen, changes neither selectedUser nor the thread.
C2_PollDrop ==
    [][\A r \in Requests :
          ( /\ mounted
            /\ r.origin \in {"poll", "send", "toggle"}
            /\ userId # None /\ r.uid # userId
            /\ selectedUser.id = userId
            /\ DeliverMsgs(r, TRUE) )
          => UNCHANGED << selectedUser, messages >>]_vars

\* C3: at every moment at most one POST /messages/send is in flight, and the
\* page shows sending while it is.
C3_NoDuplicateSends ==
    /\ SendsInFlight <= 1
    /\ (mounted /\ SendsInFlight = 1) => sending

C3_Witness == mounted /\ sending /\ SendsInFlight = 1

\* C4: a send with empty or whitespace-only compose text issues no request and
\* leaves sending, the thread, selectedUser and the compose text as they were.
C4_BlankSendIsNoOp ==
    [][(SendEvent /\ Blank)
          => UNCHANGED << net, sending, messages, selectedUser, newMessage >>]_vars

C4_Witness == rejected /\ newMessage = <<" ">> /\ selectedUser.id # None /\ ~sending

\* C5: when every request is answered in the end, sending does not stay true.
C5_SendingReleased == (mounted /\ sending) ~> (~mounted \/ ~sending)

C5_Witness ==
    /\ mounted /\ sending
    /\ \E q \in Requests : q.kind = "mark" /\ q.origin = "send"

\* C6: mark-read for a user is requested only in the step in which a thread
\* fetch for that user returns successfully, and the conversations refresh of
\* fetchMessages only in the step in which its mark-read, requested before,
\* returns.
C6_RequestOrder ==
    [][\A q \in NewRequests :
          /\ q.kind = "mark" =>
                /\ notice' = <<>>
                /\ \E r \in Settled :
                      r.kind = "msgs" /\ r.uid = q.uid /\ r.st = "ok"
          /\ (q.kind = "conv" /\ q.origin = "thread") =>
                \E m \in Settled : m.kind = "mark"]_vars

C6_Witness == \E q \in Requests : q.kind = "conv" /\ q.origin = "thread"

\* C7: the conversations refresh is requested as soon as mark-read has been
\* requested, without waiting for its answer.
C7_FireAndForget ==
    [][\A q \in NewRequests :
          q.kind = "mark" =>
              \E c \in NewRequests : c.kind = "conv" /\ c.origin = "thread"]_vars

\* C8: the first click on the list entry of a user not selected before causes
\* exactly one thread fetch for that user and, once the load has completed,
\* exactly one mark-read call.
C8_OneLoadPerSelection ==
    sel.uid # None =>
        /\ sel.fetches = 1
        /\ sel.marks <= 1
        /\ ~SelectionPending => sel.marks = 1

\* C9: when every toggle has succeeded and every reload has resolved, the list
\* entry of the selected user and the thread header show the same bot_paused.
C9_FlagsAgree ==
    ( /\ mounted
      /\ net = EmptyBag
      /\ selectedUser.id # None
      /\ Listed(selectedUser.id) )
    => ListedFlag(selectedUser.id) = selectedUser.bot_paused

\* C10: a failed conversations request leaves conversations, selectedUser, the
\* thread, sending and the compose text as they were, and raises one failure
\* notification.
C10_RefreshFailureKeepsState ==
    [][\A r \in Requests :
          DeliverConv(r, FALSE)
          => /\ UNCHANGED << conversations, selectedUser, messages, sending,
                             newMessage >>
             /\ notice' = <<"Failed to load conversations">>]_vars

C10_Witness ==
    /\ mounted
    /\ notice = <<"Failed to load conversations">>
    /\ conversations # <<>>

\* C11: a step in which fetchMessages reports 'Failed to load messages' changes
\* neither selectedUser nor the thread, and they are what they were when that
\* fetchMessages was called.  Before the first user event or tick the only
\* fetchMessages is the initial load's, called with nothing selected and an
\* empty thread.
C11_FailureKeepsThread ==
    [][\A r \in Requests :
          (mounted /\ (DeliverMsgs(r, FALSE) \/ DeliverMark(r, FALSE)))
          => /\ notice'[1] = "Failed to load messages"
             /\ UNCHANGED << selectedUser, messages >>
             /\ events = 0 => (selectedUser' = NoUser /\ messages' = <<>>)]_vars

\* C12: a failed toggle POST leaves conversations, selectedUser and the thread
\* as they were, issues no request (no reload, no second toggle) and raises the
\* failure notification.
C12_ToggleFailureKeepsState ==
    [][\A r \in Requests :
          DeliverToggle(r, FALSE)
          => /\ UNCHANGED << conversations, selectedUser, messages >>
             /\ NewRequests = {}
             /\ notice' = <<"Failed to toggle bot status">>]_vars

C12_Witness ==
    /\ mounted
    /\ notice = <<"Failed to toggle bot status">>
    /\ selectedUser.id # None

\* C13: a failed send POST raises the failure notification, leaves the compose
\* text equal to the text that was submitted, issues no request and leaves the
\* thread as it was.
C13_SendFailureKeepsText ==
    [][\A r \in Requests :
          (mounted /\ DeliverSend(r, FALSE))
          => /\ notice' = <<"Failed to send message">>
             /\ newMessage' = r.content
             /\ trim(newMessage') # <<>>
             /\ NewRequests = {}
             /\ UNCHANGED messages]_vars

C13_Witness ==
    /\ mounted
    /\ notice = <<"Failed to send message">>
    /\ trim(newMessage) # <<>>
    /\ ~sending

\* C14: a successful send POST clears the compose text and requests the thread
\* of the user the message was sent to; neither the send event, nor the backend
\* serving the POST, nor the POST's return changes the thread.
C14_NoOptimisticInsert ==
    [][/\ SendEvent => UNCHANGED messages
       /\ \A r \in Requests :
             /\ (r.kind = "send" /\ Serve(r)) => UNCHANGED messages
             /\ (mounted /\ DeliverSend(r, TRUE))
                => /\ newMessage' = <<>>
                   /\ UNCHANGED messages
                   /\ \E q \in NewRequests : q.kind = "msgs" /\ q.uid = r.uid]_vars

C14_Witness ==
    /\ mounted /\ sending
    /\ newMessage = <<>>
    /\ \E q \in Requests : q.kind = "msgs" /\ q.origin = "send"

\* C15: once the page is left and its interval is cleared, no request that
\* originates from a tick of the interval is issued: no conversations request,
\* no thread fetch, no mark-read.
C15_NoPollAfterTeardown ==
    [][~mounted => \A q \in NewRequests : q.origin # "poll"]_vars

\* C16: while the page is mounted its interval is active whatever requests have
\* failed: a tick can fire (when the model has room for its requests) and each
\* tick requests the conversations list.
C16_PollingSurvives ==
    /\ [](mounted => (intervals > 0 /\ (Room(2) => ENABLED Tick)))
    /\ [][Tick => \E q \in NewRequests : q.kind = "conv" /\ q.origin = "poll"]_vars

\* a tick after the conversations request of the initial load has failed
C16_Witness ==
    /\ mounted /\ ~loading
    /\ userId = None /\ conversations = <<>>
    /\ \E q \in Requests : q.kind = "conv" /\ q.origin = "poll"

\* C17: in every state every message of the thread belongs to the user shown
\* as selectedUser, and a thread is shown only with a selected user.
C17_PairedCommit ==
    /\ \A i \in 1..Len(messages) : messages[i].user_id = selectedUser.id
    /\ messages # <<>> => selectedUser.id # None

\* the pair on screen was committed by a response for another user than the
\* route's
C17_Witness ==
    /\ mounted /\ ~loading
    /\ userId # None /\ selectedUser.id \notin {None, userId}
    /\ messages # <<>>

\* C18: every conversations response that arrives successfully replaces the
\* list by its payload, whichever request issued it and whenever that request
\* was issued: the response that arrives last is the one shown.
C18_LastResponseWins ==
    [][\A r \in Requests :
          (mounted /\ DeliverConv(r, TRUE)) => conversations' = r.data.convs]_vars

\* a poll's response, with another payload than the list on screen, is still
\* to arrive after the response of a later request has been committed
C18_Witness ==
    /\ mounted
    /\ conversations # <<>>
    /\ \E q \in Requests :
          /\ q.kind = "conv" /\ q.origin = "poll" /\ q.st = "ok"
          /\ q.data.convs # conversations

\* C19: every tick requests the conversations list; it requests the thread of
\* the selected user when there is one, and nothing else when there is none; no
\* thread fetch or mark-read of a tick is for no user.
C19_TickRequests ==
    /\ [][Tick =>
            /\ \E q \in NewRequests : q.kind = "conv" /\ q.origin = "poll"
            /\ \A q \in NewRequests :
                  /\ q.origin = "poll" /\ q.kind \in {"conv", "msgs"}
                  /\ q.kind = "msgs" => q.uid = selectedUser.id
            /\ (selectedUser.id # None) <=>
                  (\E q \in NewRequests : q.kind = "msgs")]_vars
    /\ [](\A q \in Requests :
             (q.origin = "poll" /\ q.kind \in {"msgs", "mark"}) => q.uid # None)

\* a tick has fired with no conversation selected, on the route of a user
C19_Witness ==
    /\ mounted
    /\ selectedUser.id = None /\ userId # None
    /\ \E q \in Requests : q.kind = "conv" /\ q.origin = "poll"
    /\ \A q \in Requests : q.origin = "poll" => q.kind = "conv"

\* an initial load (init of the initial-load effect) has not returned yet
InitPending == \E q \in Requests : q.origin = "init"

\* C20: the page shows loading as long as an initial load is in flight, also
\* when two initial loads overlap because the route's user id changed before
\* the first had finished.
C20_LoadingCoversInit == (mounted /\ InitPending) => loading

\* C21: at most one interval is active at any time, exactly one while the page
\* is mounted, whatever selections and thread commits have re-run the effect,
\* and none once the page is left.
C21_OneInterval ==
    /\ intervals <= 1
    /\ mounted => intervals = 1
    /\ ~mounted => intervals = 0

\* a thread commit has re-run the effect
C21_Witness ==
    /\ mounted
    /\ selectedUser.id # None
    /\ intervals = 1

====
